---- MODULE Spec2Model ----
(***************************************************************************)
(* Model of the Next.js + Apollo Client page of react-graphql-ssr:         *)
(*   libs/apollo.js    (initOnContext, initApolloClient, withApollo)       *)
(*   apolloClient.js   (createApolloClient)                                *)
(*   pages/index.js    (IndexPage)                                         *)
(* One Node server process handling page requests, and one browser session *)
(* that hydrates a served page and then navigates client-side.             *)
(***************************************************************************)
EXTENDS Integers, Sequences, FiniteSets, TLC

VARIABLES clients, globalApolloClient, req, br, console, view

vars == <<clients, globalApolloClient, req, br, console, view>>

(* ---------------------------- bounds ---------------------------------- *)

\* number of page requests the server receives
MaxRequests == 2
\* number of client-side page transitions of the browser session
MaxNav == 1
\* number of re-renders of the mounted page in the browser
MaxRerender == 1
\* longest result list of a query response given to the render path
MaxRecords == 2

(* ---------------------------- values ---------------------------------- *)

\* null / undefined: the falsy handle
Null == 0

\* an optional value: undefined, or a defined value
None == <<>>
Some(x) == <<x>>
IsSome(o) == Len(o) = 1
Get(o) == o[1]

Rick == [id |-> "1", name |-> "Rick"]
Morty == [id |-> "2", name |-> "Morty"]
Summer == [id |-> "3", name |-> "Summer"]
Records == {Rick, Morty, Summer}

RECURSIVE ListsUpTo(_)
ListsUpTo(n) ==
  IF n = 0 THEN {<<>>}
  ELSE LET shorter == ListsUpTo(n - 1)
       IN  shorter \cup {Append(l, x) : l \in {s \in shorter : Len(s) = n - 1}, x \in Records}

\* the one query of the page: `characters { results { id name } }`
ALL_CHARACTERS == "allCharacters"

\* what the remote endpoint answers to ALL_CHARACTERS when it does answer
ApiResponses == {<<Rick, Morty>>, <<Morty>>}

(* ------------------------ the client's cache -------------------------- *)

\* an empty cache: a mapping from query to result list
EmptyCache == [q \in {} |-> <<>>]

\* InMemoryCache.extract(): the serializable snapshot, one entry per cached query
extract(cache) == {[query |-> q, results |-> cache[q]] : q \in DOMAIN cache}

\* InMemoryCache.restore(initialState): undefined leaves the cache empty
restore(initialState) ==
  IF ~IsSome(initialState) THEN EmptyCache
  ELSE LET snap == Get(initialState)
       IN  [q \in {e.query : e \in snap} |-> (CHOOSE e \in snap : e.query = q).results]

\* the cache after the client wrote the response of `query`
writeQuery(cache, query, results) ==
  [q \in DOMAIN cache \cup {query} |-> IF q = query THEN results ELSE cache[q]]

\* the empty object literal `{}` used as a snapshot
EmptySnapshot == {}

(* ---------------------- apolloClient.js ------------------------------- *)

createApolloClient(initialState, ctx) ==
  [ ssrMode    |-> ctx,
    cache      |-> restore(initialState),
    toJSONNull |-> FALSE ]

(* ---------------------- libs/apollo.js -------------------------------- *)

\* The result of a provisioner call: the heap of clients, the module-level
\* variable and the handle returned.
Provisioned(cl, g, h) == [clients |-> cl, global |-> g, client |-> h]

\* bug: the server check is missing, the module-level client is shared
initApolloClient_Shared(window, initialState, ctx, cl, g) ==
  IF g = Null
  THEN Provisioned(Append(cl, createApolloClient(initialState, ctx)), Len(cl) + 1, Len(cl) + 1)
  ELSE Provisioned(cl, g, g)

\* bug: the module-level variable is never consulted
initApolloClient_Fresh(window, initialState, ctx, cl, g) ==
  Provisioned(Append(cl, createApolloClient(initialState, ctx)),
              IF window THEN Len(cl) + 1 ELSE g, Len(cl) + 1)

\* bug: a reused client is re-seeded with the snapshot it is called with
initApolloClient_Reseed(window, initialState, ctx, cl, g) ==
  IF ~window
  THEN Provisioned(Append(cl, createApolloClient(initialState, ctx)), g, Len(cl) + 1)
  ELSE IF g = Null
  THEN Provisioned(Append(cl, createApolloClient(initialState, ctx)), Len(cl) + 1, Len(cl) + 1)
  ELSE Provisioned([cl EXCEPT ![g].cache = restore(initialState)], g, g)

\* window: typeof window !== 'undefined'; ctx: Boolean(ctx);
\* cl: the clients constructed so far; g: globalApolloClient of this process
initApolloClient(window, initialState, ctx, cl, g) ==
  IF ~window
  THEN Provisioned(Append(cl, createApolloClient(initialState, ctx)), g, Len(cl) + 1)
  ELSE IF g = Null
  THEN Provisioned(Append(cl, createApolloClient(initialState, ctx)), Len(cl) + 1, Len(cl) + 1)
  ELSE Provisioned(cl, g, g)

\* a NextPageContext / NextAppContext as far as the module reads and writes it:
\* inApp is Boolean(ctx.ctx), inner is ctx.ctx.apolloClient
Context(inApp, inner) ==
  [inApp |-> inApp, apolloClient |-> Null, apolloState |-> None, inner |-> inner]

Installed(ctx, cl, g) == [ctx |-> ctx, clients |-> cl, global |-> g]

\* bug: the client is not told to serialize itself to null
initOnContext_NoToJSON(window, ctx, cl, g) ==
  LET p == IF ctx.apolloClient # Null
           THEN Provisioned(cl, g, ctx.apolloClient)
           ELSE initApolloClient(window,
                                 IF IsSome(ctx.apolloState) THEN ctx.apolloState
                                                            ELSE Some(EmptySnapshot),
                                 TRUE, cl, g)
  IN  Installed([ctx EXCEPT !.apolloClient = p.client,
                            !.inner = IF ctx.inApp THEN p.client ELSE @],
                p.clients, p.global)

initOnContext(window, ctx, cl, g) ==
  LET \* ctx.apolloClient || initApolloClient(ctx.apolloState || {}, ...)
      p   == IF ctx.apolloClient # Null
             THEN Provisioned(cl, g, ctx.apolloClient)
             ELSE initApolloClient(window,
                                   IF IsSome(ctx.apolloState) THEN ctx.apolloState
                                                              ELSE Some(EmptySnapshot),
                                   TRUE, cl, g)
      \* apolloClient.toJSON = () => null
      cl2 == [p.clients EXCEPT ![p.client].toJSONNull = TRUE]
  IN  Installed([ctx EXCEPT !.apolloClient = p.client,
                            !.inner = IF ctx.inApp THEN p.client ELSE @],
                cl2, p.global)

\* the props WithApollo destructures: { apolloClient, apolloState, ...pageProps }
Props(apolloClient, apolloState) ==
  [apolloClient |-> apolloClient, apolloState |-> apolloState]

NoProps == Props(Null, None)

\* bug: the component always asks the provisioner for its client
WithApollo_Reinit(window, props, cl, g) ==
  initApolloClient(window, props.apolloState, FALSE, cl, g)

\* the client the WithApollo component hands to ApolloProvider
WithApollo(window, props, cl, g) ==
  IF props.apolloClient # Null
  THEN Provisioned(cl, g, props.apolloClient)
  ELSE initApolloClient(window, props.apolloState, FALSE, cl, g)

\* bug: the tree is walked whenever there is an AppTree
DataFromTreeEnabled_Always(ssr, AppTree) == AppTree

\* `if (ssr && AppTree)`
DataFromTreeEnabled(ssr, AppTree) == ssr /\ AppTree

\* `if (ssr || PageComponent.getInitialProps)`
HasGetInitialProps(ssr, pageGetInitialProps) == ssr \/ pageGetInitialProps

Attempt(thrown, logged) == [thrown |-> thrown, logged |-> logged]

\* bug: the failure of the walk is rethrown
TryGetDataFromTree_Rethrow(rejected) == Attempt(rejected, FALSE)

\* try { await getDataFromTree(...) } catch (error) { console.error(...) }
TryGetDataFromTree(rejected) == Attempt(FALSE, rejected)

\* { ...pageProps, apolloState: apolloClient.cache.extract(), apolloClient: ctx.apolloClient }
InitialProps(ctx, cl) ==
  Props(ctx.apolloClient, Some(extract(cl[ctx.apolloClient].cache)))

\* The page payload: JSON.stringify of the props. The client serializes
\* through its toJSON; a client without it is embedded as a plain object.
Payload(props, cl) ==
  [ apolloState  |-> props.apolloState,
    apolloClient |-> IF props.apolloClient = Null THEN "absent"
                     ELSE IF cl[props.apolloClient].toJSONNull THEN "null"
                     ELSE "object" ]

\* a deserialized plain object standing where a client is expected
NotAClient == -1

\* the props the browser parses out of the payload
Hydrated(payload) ==
  Props(IF payload.apolloClient = "object" THEN NotAClient ELSE Null,
        payload.apolloState)

(* ---------------------- pages/index.js -------------------------------- *)

QueryResult(loading, error, data) ==
  [loading |-> loading, error |-> error, data |-> data]

\* useQuery(ALL_CHARACTERS) of a page view on a client whose cache is `cache`;
\* viewState is the state of the view's query execution
useQuery(cache, viewState) ==
  IF viewState = "failed" THEN QueryResult(FALSE, TRUE, None)
  ELSE IF ALL_CHARACTERS \in DOMAIN cache
  THEN QueryResult(FALSE, FALSE, Some(cache[ALL_CHARACTERS]))
  ELSE QueryResult(TRUE, FALSE, None)

Node(tag, key, text) == [tag |-> tag, key |-> key, text |-> text]

ErrorMarkup == <<Node("h1", "", "Error")>>
LoadingMarkup == <<Node("h1", "", "Loading...")>>
Heading == Node("h3", "", "Setting up Apollo GraphQL in Next.js with Server Side Rendering")
\* reading `data.characters` of undefined
TypeErrorMarkup == <<Node("TypeError", "", "")>>

\* bug: the entries are accumulated in front
RECURSIVE ResultsMap_Reversed(_)
ResultsMap_Reversed(results) ==
  IF results = <<>> THEN <<>>
  ELSE ResultsMap_Reversed(Tail(results))
         \o <<Node("ul", Head(results).id, Head(results).name)>>

\* data.characters.results.map((data) => <ul key={data.id}><li>{data.name}</li></ul>)
RECURSIVE ResultsMap(_)
ResultsMap(results) ==
  IF results = <<>> THEN <<>>
  ELSE <<Node("ul", Head(results).id, Head(results).name)>>
         \o ResultsMap(Tail(results))

\* bug: the loading check comes first
IndexPage_LoadingFirst(q) ==
  IF q.loading THEN LoadingMarkup
  ELSE IF q.error THEN ErrorMarkup
  ELSE IF ~IsSome(q.data) THEN TypeErrorMarkup
  ELSE <<Heading>> \o ResultsMap(Get(q.data))

IndexPage(q) ==
  IF q.error THEN ErrorMarkup
  ELSE IF q.loading THEN LoadingMarkup
  ELSE IF ~IsSome(q.data) THEN TypeErrorMarkup
  ELSE <<Heading>> \o ResultsMap(Get(q.data))

\* the list entries of a markup, and its literal text
Entries(markup) == SelectSeq(markup, LAMBDA n : n.tag = "ul")
Texts(markup) == {markup[i].text : i \in DOMAIN markup}

(* ---------------------- the server process ---------------------------- *)

Requests == 1..MaxRequests

\* the handles constructed when the heap grew from `before` to `after`
Constructed(before, after) == (Len(before) + 1)..Len(after)

NoPayload == [apolloState |-> None, apolloClient |-> "absent"]

NewRequest ==
  [ pc |-> "new", ssr |-> FALSE, inApp |-> FALSE, inner |-> "none",
    ctx |-> Context(FALSE, Null), finished |-> FALSE, walk |-> "none",
    imported |-> FALSE,
    props |-> NoProps, markup |-> <<>>, payload |-> NoPayload,
    made |-> {}, fetched |-> {}, attached |-> {}, walkClient |-> Null,
    renderClient |-> Null, again |-> FALSE ]

\* what PageComponent.getInitialProps / App.getInitialProps does for a page:
\*   none     the page has no getInitialProps
\*   plain    it returns page props
\*   redirect it ends the response
\*   reinit   it calls initOnContext on the context it is given (ctx, or
\*            ctx.ctx for a page under a wrapped App) and returns page props
InnerKinds(inApp) ==
  IF inApp THEN {"plain", "redirect", "reinit"}
  ELSE {"none", "plain", "redirect", "reinit"}

\* getDataFromTree outcomes: the import fails, the query fails, or the walk
\* completes, having fetched `data` when the cache did not hold the query
Outcome(kind, data) == [kind |-> kind, data |-> data]

Outcomes(hit) ==
  {Outcome("importFailed", <<>>)}
    \cup (IF hit THEN {Outcome("cached", <<>>)}
          ELSE {Outcome("queryFailed", <<>>)}
                 \cup {Outcome("fetched", d) : d \in ApiResponses})

\* The state of request rq once the wrapped getInitialProps has returned:
\* a finished response returns the page props alone, an enabled walk is
\* started, and otherwise the props are returned at once.
AfterPageProps(rq, cl) ==
  IF rq.finished THEN [rq EXCEPT !.pc = "redirected"]
  ELSE IF DataFromTreeEnabled(rq.ssr, TRUE) THEN [rq EXCEPT !.pc = "walk"]
  ELSE [rq EXCEPT !.pc = "render", !.props = InitialProps(rq.ctx, cl)]

\* A page request arrives; Next.js calls WithApollo.getInitialProps when the
\* component has one, which runs up to its first await.
Request(r, ssr, inApp, inner) ==
  /\ req[r].pc = "new"
  /\ IF r = 1 THEN TRUE ELSE req[r - 1].pc # "new"
  /\ inner \in InnerKinds(inApp)
  /\ LET rq == [req[r] EXCEPT !.ssr = ssr, !.inApp = inApp, !.inner = inner,
                              !.ctx = Context(inApp, Null)]
     IN  IF HasGetInitialProps(ssr, inner # "none")
         THEN LET inst == initOnContext(FALSE, rq.ctx, clients, globalApolloClient.server)
                  rq2  == [rq EXCEPT !.ctx = inst.ctx,
                                     !.made = Constructed(clients, inst.clients),
                                     !.attached = {inst.ctx.apolloClient}]
              IN  /\ clients' = inst.clients
                  /\ globalApolloClient' = [globalApolloClient EXCEPT !.server = inst.global]
                  /\ req' = [req EXCEPT ![r] =
                               IF inner = "none" THEN AfterPageProps(rq2, inst.clients)
                               ELSE [rq2 EXCEPT !.pc = "pageProps"]]
         ELSE /\ req' = [req EXCEPT ![r] = [rq EXCEPT !.pc = "render"]]
              /\ UNCHANGED <<clients, globalApolloClient>>
  /\ UNCHANGED <<br, console, view>>

\* `await PageComponent.getInitialProps(ctx)` / `await App.getInitialProps(ctx)`
PageProps(r) ==
  /\ req[r].pc = "pageProps"
  /\ LET rq == req[r]
     IN  CASE rq.inner = "plain" ->
                /\ req' = [req EXCEPT ![r] = AfterPageProps(rq, clients)]
                /\ UNCHANGED <<clients, globalApolloClient>>
           [] rq.inner = "redirect" ->
                /\ req' = [req EXCEPT ![r] = AfterPageProps([rq EXCEPT !.finished = TRUE], clients)]
                /\ UNCHANGED <<clients, globalApolloClient>>
           [] rq.inner = "reinit" ->
                LET given == IF rq.inApp
                             THEN [Context(FALSE, Null) EXCEPT !.apolloClient = rq.ctx.inner]
                             ELSE rq.ctx
                    inst  == initOnContext(FALSE, given, clients, globalApolloClient.server)
                    ctx2  == IF rq.inApp
                             THEN [rq.ctx EXCEPT !.inner = inst.ctx.apolloClient]
                             ELSE inst.ctx
                    rq2   == [rq EXCEPT !.ctx = ctx2,
                                        !.made = @ \cup Constructed(clients, inst.clients),
                                        !.attached = @ \cup {inst.ctx.apolloClient},
                                        !.again = TRUE]
                IN  /\ clients' = inst.clients
                    /\ globalApolloClient' = [globalApolloClient EXCEPT !.server = inst.global]
                    /\ req' = [req EXCEPT ![r] = AfterPageProps(rq2, inst.clients)]
  /\ UNCHANGED <<br, console, view>>

\* getDataFromTree(<AppTree {...props} />) on the server: the tree is
\* rendered, WithApollo picks its client, and the query the page issues is
\* executed against it.
Walked(cl, g, h, fetched, rejected) ==
  [clients |-> cl, global |-> g, client |-> h, fetched |-> fetched, rejected |-> rejected]

getDataFromTree(props, cl, g, o) ==
  IF o.kind = "importFailed" THEN Walked(cl, g, Null, {}, TRUE)
  ELSE LET p == WithApollo(FALSE, props, cl, g)
       IN  CASE o.kind = "cached" -> Walked(p.clients, p.global, p.client, {}, FALSE)
             [] o.kind = "queryFailed" -> Walked(p.clients, p.global, p.client, {}, TRUE)
             [] o.kind = "fetched" ->
                  Walked([p.clients EXCEPT ![p.client].cache =
                            writeQuery(@, ALL_CHARACTERS, o.data)],
                         p.global, p.client, {o.data}, FALSE)

\* would the walk's render find the query in the cache of the client it uses?
WalkHit(props, cl, g) ==
  LET p == WithApollo(FALSE, props, cl, g)
  IN  ALL_CHARACTERS \in DOMAIN p.clients[p.client].cache

\* `await getDataFromTree(...)` inside the try, then Head.rewind() and the
\* return of the props
Walk(r, o) ==
  /\ req[r].pc = "walk"
  /\ LET rq    == req[r]
         \* props = { ...pageProps, apolloClient } under an App, and
         \* { pageProps: { ...pageProps, apolloClient } } for a page: either
         \* way WithApollo is rendered with the apolloClient prop
         props == Props(rq.ctx.apolloClient, None)
     IN  /\ o \in Outcomes(WalkHit(props, clients, globalApolloClient.server))
         /\ LET w   == getDataFromTree(props, clients, globalApolloClient.server, o)
                att == TryGetDataFromTree(w.rejected)
                rq2 == [rq EXCEPT !.made = @ \cup Constructed(clients, w.clients),
                                  !.fetched = @ \cup w.fetched,
                                  !.walk = IF w.rejected THEN "failed" ELSE "ok",
                                  !.imported = o.kind # "importFailed",
                                  !.walkClient = w.client]
            IN  /\ clients' = w.clients
                /\ globalApolloClient' = [globalApolloClient EXCEPT !.server = w.global]
                /\ console' = IF att.logged THEN console \cup {r} ELSE console
                /\ req' = [req EXCEPT ![r] =
                             IF att.thrown THEN [rq2 EXCEPT !.pc = "crashed"]
                             ELSE [rq2 EXCEPT !.pc = "render",
                                              !.props = InitialProps(rq.ctx, w.clients)]]
  /\ UNCHANGED <<br, view>>

\* Next.js renders the page with the props and sends the document with the
\* props serialized into it.
RenderAndSend(r) ==
  /\ req[r].pc = "render"
  /\ LET rq == req[r]
         p  == WithApollo(FALSE, rq.props, clients, globalApolloClient.server)
         q  == useQuery(p.clients[p.client].cache, "idle")
     IN  /\ clients' = p.clients
         /\ globalApolloClient' = [globalApolloClient EXCEPT !.server = p.global]
         /\ req' = [req EXCEPT ![r] =
                      [rq EXCEPT !.pc = "sent",
                                 !.markup = IndexPage(q),
                                 !.payload = Payload(rq.props, p.clients),
                                 !.made = @ \cup Constructed(clients, p.clients),
                                 !.renderClient = p.client]]
  /\ UNCHANGED <<br, console, view>>

NoBrowser ==
  [ pc |-> "none", origin |-> 0, props |-> NoProps, client |-> Null,
    viewState |-> "idle", markup |-> <<>>, ctx |-> Context(FALSE, Null),
    hasProps |-> FALSE, navs |-> 0, rerenders |-> 0, provisions |-> 0,
    fetches |-> 0, made |-> {}, returned |-> {}, ignored |-> FALSE ]

(* ---------------------- the browser session --------------------------- *)

\* WithApollo calls the provisioner although the session has its client, with
\* a snapshot that differs from what the client's cache holds
SnapshotIgnored(props, cl, g) ==
  /\ props.apolloClient = Null
  /\ g # Null
  /\ restore(props.apolloState) # cl[g].cache

\* The mounted page renders: WithApollo picks its client and IndexPage shows
\* the state of its query, starting the fetch a new view needs.
Mounted(b, props, cl, g) ==
  LET p == WithApollo(TRUE, props, cl, g)
  IN  IF p.client = NotAClient
      THEN [ br |-> [b EXCEPT !.props = props, !.client = p.client,
                              !.markup = TypeErrorMarkup,
                              !.provisions = @ + 1, !.returned = @ \cup {p.client}],
             clients |-> p.clients, global |-> p.global ]
      ELSE LET q == useQuery(p.clients[p.client].cache, b.viewState)
           IN  [ br |-> [b EXCEPT !.props = props, !.client = p.client,
                                  !.markup = IndexPage(q),
                                  !.viewState = IF @ # "idle" THEN @
                                                ELSE IF q.loading THEN "pending"
                                                ELSE "succeeded",
                                  !.fetches = IF b.viewState = "idle" /\ q.loading
                                              THEN @ + 1 ELSE @,
                                  !.provisions = @ + 1,
                                  !.returned = @ \cup {p.client},
                                  !.made = @ \cup Constructed(cl, p.clients),
                                  !.ignored = @ \/ SnapshotIgnored(props, cl, g)],
                 clients |-> p.clients, global |-> p.global ]

\* the browser loads the document of request r and hydrates the page
Hydrate(r) ==
  /\ br.pc = "none"
  /\ req[r].pc = "sent"
  /\ LET m == Mounted([br EXCEPT !.pc = "live", !.origin = r],
                      Hydrated(req[r].payload), clients, globalApolloClient.browser)
     IN  /\ br' = m.br
         /\ clients' = m.clients
         /\ globalApolloClient' = [globalApolloClient EXCEPT !.browser = m.global]
  /\ UNCHANGED <<req, console, view>>

\* the pending query of the mounted view resolves or fails, and IndexPage
\* renders again
FetchDone(ok, data) ==
  /\ br.viewState = "pending"
  /\ br.pc # "none"
  /\ LET cl == IF ok THEN [clients EXCEPT ![br.client].cache =
                                     writeQuery(@, ALL_CHARACTERS, data)]
               ELSE clients
         vs == IF ok THEN "succeeded" ELSE "failed"
     IN  /\ clients' = cl
         /\ br' = [br EXCEPT !.viewState = vs,
                             !.markup = IndexPage(useQuery(cl[br.client].cache, vs))]
  /\ UNCHANGED <<globalApolloClient, req, console, view>>

\* WithApollo renders again with the props it has
Rerender ==
  /\ br.pc = "live"
  /\ br.rerenders < MaxRerender
  /\ LET m == Mounted([br EXCEPT !.rerenders = @ + 1], br.props, clients,
                      globalApolloClient.browser)
     IN  /\ br' = m.br
         /\ clients' = m.clients
         /\ globalApolloClient' = [globalApolloClient EXCEPT !.browser = m.global]
  /\ UNCHANGED <<req, console, view>>

\* A client-side transition to a page: Next.js calls its getInitialProps,
\* when it has one, in the browser.
NavigateStart(ssr, inApp, inner) ==
  /\ br.pc = "live"
  /\ br.navs < MaxNav
  /\ inner \in InnerKinds(inApp) \ {"redirect", "reinit"}
  /\ LET b == [br EXCEPT !.pc = "nav", !.navs = @ + 1, !.ctx = Context(inApp, Null)]
     IN  IF HasGetInitialProps(ssr, inner # "none")
         THEN LET inst == initOnContext(TRUE, b.ctx, clients, globalApolloClient.browser)
              IN  /\ clients' = inst.clients
                  /\ globalApolloClient' = [globalApolloClient EXCEPT !.browser = inst.global]
                  /\ br' = [b EXCEPT !.ctx = inst.ctx, !.hasProps = TRUE,
                                     !.provisions = @ + 1,
                                     !.returned = @ \cup {inst.ctx.apolloClient},
                                     !.made = @ \cup Constructed(clients, inst.clients)]
         ELSE /\ br' = [b EXCEPT !.hasProps = FALSE]
              /\ UNCHANGED <<clients, globalApolloClient>>
  /\ UNCHANGED <<req, console, view>>

\* getInitialProps returns (no walk in the browser) and the new page mounts
NavigateFinish ==
  /\ br.pc = "nav"
  /\ LET props == IF br.hasProps THEN InitialProps(br.ctx, clients) ELSE NoProps
         m     == Mounted([br EXCEPT !.pc = "live", !.viewState = "idle"], props,
                          clients, globalApolloClient.browser)
     IN  /\ br' = m.br
         /\ clients' = m.clients
         /\ globalApolloClient' = [globalApolloClient EXCEPT !.browser = m.global]
  /\ UNCHANGED <<req, console, view>>

(* ---------------------- the render path alone ------------------------- *)

\* every useQuery result IndexPage can be handed
QueryResults ==
  {QueryResult(l, e, d) : l \in BOOLEAN, e \in BOOLEAN,
                          d \in {None} \cup {Some(x) : x \in ListsUpTo(MaxRecords)}}

Render ==
  /\ view.page = <<>>
  /\ view' = [view EXCEPT !.page = IndexPage(view.query)]
  /\ UNCHANGED <<clients, globalApolloClient, req, br, console>>

(* ---------------------- specifications -------------------------------- *)

Fresh ==
  /\ clients = <<>>
  /\ globalApolloClient = [server |-> Null, browser |-> Null]
  /\ req = [r \in Requests |-> NewRequest]
  /\ br = NoBrowser
  /\ console = {}

Kinds == {"none", "plain", "redirect", "reinit"}
AllOutcomes == Outcomes(TRUE) \cup Outcomes(FALSE)

Init ==
  /\ Fresh
  /\ view = [query |-> QueryResult(TRUE, FALSE, None), page |-> <<>>]

\* the server under MaxRequests page requests
Next ==
  \/ \E r \in Requests, ssr \in BOOLEAN, inApp \in BOOLEAN, inner \in Kinds :
        Request(r, ssr, inApp, inner)
  \/ \E r \in Requests : PageProps(r)
  \/ \E r \in Requests, o \in AllOutcomes : Walk(r, o)
  \/ \E r \in Requests : RenderAndSend(r)

Spec == Init /\ [][Next]_vars

\* one page load: the request, then the browser session on its document
SessionNext ==
  \/ \E ssr \in BOOLEAN, inApp \in BOOLEAN, inner \in Kinds : Request(1, ssr, inApp, inner)
  \/ PageProps(1)
  \/ \E o \in AllOutcomes : Walk(1, o)
  \/ RenderAndSend(1)
  \/ Hydrate(1)
  \/ \E d \in ApiResponses : FetchDone(TRUE, d)
  \/ FetchDone(FALSE, <<>>)
  \/ Rerender
  \/ \E ssr \in BOOLEAN, inApp \in BOOLEAN, inner \in Kinds : NavigateStart(ssr, inApp, inner)
  \/ NavigateFinish

SessionSpec == Init /\ [][SessionNext]_vars

\* the render path on every query result
RenderInit ==
  /\ Fresh
  /\ view \in [query : QueryResults, page : {<<>>}]

RenderNext == Render

RenderSpec == RenderInit /\ [][RenderNext]_vars

(* ---------------------- properties ------------------------------------ *)

Range(f) == {f[i] : i \in DOMAIN f}
Names(results) == {results[i].name : i \in DOMAIN results}

\* every handle request r was given: by initOnContext, in the walk, in the render
HandlesOf(r) == (req[r].attached \cup {req[r].walkClient, req[r].renderClient}) \ {Null}

\* the result lists a cache, and a snapshot, hold
CacheResults(h) == Range(clients[h].cache)
SnapshotResults(o) == IF IsSome(o) THEN {e.results : e \in Get(o)} ELSE {}

\* C1: on the server every provisioner call constructs a new client: no two
\* requests are given the same handle, each handle a request is given was
\* constructed during that request, and the server's globalApolloClient
\* stays unassigned.
C1_ServerNeverReuses ==
  /\ globalApolloClient.server = Null
  /\ \A a \in Requests : HandlesOf(a) \subseteq req[a].made
  /\ \A a, b \in Requests : a # b => HandlesOf(a) \cap HandlesOf(b) = {}

C1_Witness ==
  /\ req[1].pc = "sent" /\ req[1].attached # {}
  /\ req[2].pc = "sent" /\ req[2].attached # {}

\* C2: a result fetched by one request and not by another is in no cache of
\* the other request's clients, nor in the apolloState it returns, nor in
\* the payload it sends.
C2_NoCrossRequestData ==
  \A a, b \in Requests :
    a # b =>
      \A X \in req[a].fetched \ req[b].fetched :
        /\ \A h \in HandlesOf(b) : X \notin CacheResults(h)
        /\ X \notin SnapshotResults(req[b].props.apolloState)
        /\ X \notin SnapshotResults(req[b].payload.apolloState)

C2_Witness ==
  /\ req[1].pc = "sent" /\ req[1].fetched = {<<Rick, Morty>>}
  /\ req[2].pc = "sent" /\ req[2].fetched = {<<Morty>>}
  /\ SnapshotResults(req[2].payload.apolloState) = {<<Morty>>}

\* C3: the browser session constructs at most one client, and every handle
\* WithApollo and initOnContext obtain in the browser is the one stored in
\* globalApolloClient.
C3_BrowserSingleClient ==
  /\ Cardinality(br.made) <= 1
  /\ br.made \subseteq {globalApolloClient.browser}
  /\ br.provisions > 0 => br.returned = {globalApolloClient.browser}

C3_Witness ==
  /\ br.pc = "live" /\ br.navs >= 1 /\ br.hasProps
  /\ br.provisions >= 3
  /\ Cardinality(br.made) = 1

\* C4: once the browser session has its client, a step in which the
\* provisioner is invoked again leaves globalApolloClient and that client's
\* cache as they were, whatever snapshot it is invoked with.
C4_SnapshotIgnoredAfterFirst ==
  [][ (globalApolloClient.browser # Null /\ br'.provisions > br.provisions)
        => /\ globalApolloClient'.browser = globalApolloClient.browser
           /\ clients'[globalApolloClient.browser].cache
                = clients[globalApolloClient.browser].cache ]_vars

C4_Witness ==
  /\ br.ignored
  /\ br.provisions >= 2
  /\ ALL_CHARACTERS \in DOMAIN clients[globalApolloClient.browser].cache

\* C5: a query result that reports an error is rendered as the error state,
\* with no list entry and no loading indicator, whatever its loading flag
\* and data are.
C5_ErrorTakesPrecedence ==
  (view.page # <<>> /\ view.query.error)
    => /\ view.page = ErrorMarkup
       /\ Entries(view.page) = <<>>
       /\ view.page # LoadingMarkup

C5_Witness ==
  /\ view.page # <<>>
  /\ view.query = QueryResult(TRUE, TRUE, Some(<<Rick, Morty>>))

\* C6: a successful query result of n records is rendered as exactly n list
\* entries, the i-th keyed by the i-th record's id and showing its name.
C6_OneEntryPerRecord ==
  (view.page # <<>> /\ ~view.query.error /\ ~view.query.loading /\ IsSome(view.query.data))
    => LET results == Get(view.query.data)
           entries == Entries(view.page)
       IN  /\ Len(entries) = Len(results)
           /\ \A i \in DOMAIN results :
                /\ entries[i].key = results[i].id
                /\ entries[i].text = results[i].name

C6_Witness ==
  /\ view.query = QueryResult(FALSE, FALSE, Some(<<Rick, Morty>>))
  /\ Len(Entries(view.page)) = 2
  /\ Entries(view.page)[1].text = "Rick"
  /\ Entries(view.page)[2].text = "Morty"

\* C7: a failed dependency walk never aborts the request: it is logged,
\* getInitialProps goes on to return the props with apolloState and the
\* client, and a request whose walk failed is served the loading state.
C7_WalkFailureSwallowed ==
  \A r \in Requests :
    LET rq == req[r]
    IN  /\ rq.pc # "crashed"
        /\ rq.walk = "failed" =>
             /\ r \in console
             /\ rq.pc \in {"render", "sent"}
             /\ rq.props.apolloClient = rq.ctx.apolloClient
             /\ rq.props.apolloClient # Null
             /\ rq.props.apolloState = Some(extract(clients[rq.ctx.apolloClient].cache))
             /\ rq.pc = "sent" => rq.markup = LoadingMarkup

C7_Witness ==
  \E r \in Requests :
    /\ req[r].pc = "sent" /\ req[r].ssr
    /\ req[r].walk = "failed" /\ ~req[r].imported
    /\ req[r].markup = LoadingMarkup
    /\ r \in console

\* C8 as stated: every page served with ssr: true has the record names in
\* its markup, and a page with ssr: false and no getInitialProps is served
\* unwalked in the loading state.
C8_Original ==
  \A r \in Requests :
    LET rq == req[r]
    IN  rq.pc = "sent" =>
          /\ rq.ssr =>
               /\ rq.markup[1] = Heading
               /\ \A X \in rq.fetched : Names(X) \subseteq Texts(rq.markup)
          /\ (~rq.ssr /\ ~rq.inApp /\ rq.inner = "none") =>
               /\ rq.walk = "none"
               /\ rq.markup = LoadingMarkup

\* C8 amended: with ssr: true the walk is run before the page is rendered,
\* and when it succeeds the served markup lists the fetched records' names;
\* with ssr: false no walk is ever run and the page is served in the
\* loading state.
C8_Amended ==
  \A r \in Requests :
    LET rq == req[r]
    IN  /\ (rq.ssr /\ rq.pc \in {"render", "sent"}) => rq.walk # "none"
        /\ (rq.ssr /\ rq.pc = "sent" /\ rq.walk = "ok") =>
             /\ rq.markup[1] = Heading
             /\ rq.fetched # {}
             /\ \A X \in rq.fetched :
                  /\ Names(X) \subseteq Texts(rq.markup)
                  /\ Len(Entries(rq.markup)) = Len(X)
        /\ ~rq.ssr =>
             /\ rq.walk = "none"
             /\ rq.pc = "sent" =>
                  /\ rq.markup = LoadingMarkup
                  /\ Texts(rq.markup) \cap {x.name : x \in Records} = {}

C8_Witness ==
  /\ \E r \in Requests :
       /\ req[r].pc = "sent" /\ req[r].ssr /\ req[r].inner = "none"
       /\ req[r].walk = "ok"
       /\ {"Rick", "Morty"} \subseteq Texts(req[r].markup)
  /\ \E r \in Requests :
       /\ req[r].pc = "sent" /\ ~req[r].ssr /\ req[r].inner = "none"
       /\ req[r].markup = LoadingMarkup

\* C9: a request constructs at most one client, and exactly one by the time
\* it is served; initOnContext attaches that one handle to the context (and
\* to the nested page context under an App), marks it to serialize to null,
\* and returns it again when called on a context that carries it; the walk
\* and the final render use that handle.
C9_OneClientPerRequest ==
  \A r \in Requests :
    LET rq == req[r]
    IN  /\ Cardinality(rq.made) <= 1
        /\ rq.pc = "sent" => Cardinality(rq.made) = 1
        /\ rq.attached # {} =>
             /\ rq.attached = {rq.ctx.apolloClient}
             /\ rq.made = {rq.ctx.apolloClient}
             /\ clients[rq.ctx.apolloClient].toJSONNull
             /\ rq.inApp => rq.ctx.inner = rq.ctx.apolloClient
             /\ rq.walkClient \in {Null, rq.ctx.apolloClient}
             /\ rq.pc = "sent" => rq.renderClient = rq.ctx.apolloClient

C9_Witness ==
  \E r \in Requests :
    /\ req[r].pc = "sent" /\ req[r].inApp /\ req[r].again
    /\ req[r].walk = "ok"
    /\ req[r].walkClient = req[r].renderClient
    /\ Cardinality(req[r].made) = 1

\* C10: after a successful server-side render the payload carries the
\* snapshot of the request's cache and null for the client; the browser
\* session that loads it constructs its one client with that snapshot as
\* its cache, and the page is in the succeeded state showing the served
\* markup, with no round trip started.
C10_HydratedFromSnapshot ==
  LET rq == req[1]
  IN  /\ (rq.pc = "sent" /\ rq.walk = "ok") =>
           /\ rq.payload.apolloClient = "null"
           /\ rq.payload.apolloState = Some(extract(clients[rq.ctx.apolloClient].cache))
           /\ SnapshotResults(rq.payload.apolloState) = rq.fetched
      /\ (br.pc # "none" /\ rq.walk = "ok") =>
           /\ br.made = {globalApolloClient.browser}
           /\ globalApolloClient.browser \notin rq.made
           /\ clients[globalApolloClient.browser].cache = restore(rq.payload.apolloState)
           /\ br.client = globalApolloClient.browser
           /\ br.viewState = "succeeded"
           /\ br.fetches = 0
           /\ br.markup = rq.markup

C10_Witness ==
  /\ br.pc = "live" /\ br.provisions = 1
  /\ req[1].walk = "ok"
  /\ "Rick" \in Texts(br.markup)
  /\ br.fetches = 0

====
